---- MODULE Spec2Model ----
(***************************************************************************)
(* Model of src/include/Likelihood.h (namespace gpr): the Likelihood base  *)
(* class and its two strategies GaussianLikelihood and                     *)
(* GaussianLogLikelihood.                                                  *)
(*                                                                         *)
(* A state holds one Gaussian process (what its four accessors return),    *)
(* the build the header was compiled in, the last member function called   *)
(* and what that call produced.  Each member function is one action.       *)
(*                                                                         *)
(* Scalars.  TScalarType values are integers (exact) plus the IEEE values  *)
(* +inf, -inf and NaN; a finite result whose magnitude exceeds FMax        *)
(* overflows to an infinity.  Quantities the code multiplies by 0.5 (the   *)
(* data fit df and the derivatives delta / jacobian) are carried as twice  *)
(* their value, so that halving is exact.                                  *)
(*                                                                         *)
(* Determinants.  The determinant is only ever compared with -epsilon, 0,  *)
(* min and max of HighPrecisionType, so it is carried as a point on an     *)
(* ordered scale on which those four thresholds are HPEps, 0, HPMin and    *)
(* HPMax; DetNaN is a NaN determinant (every comparison false).            *)
(***************************************************************************)
EXTENDS Integers, Sequences, FiniteSets, TLC

VARIABLES gp, build, last, result

vars == <<gp, build, last, result>>

(* ---------------------------- bounds ----------------------------------- *)
MaxN == 2
MaxT == 2
MaxP == 2
FMax == 20

(* ------------------- HighPrecisionType thresholds ---------------------- *)
HPMin == 2
HPEps == 4
HPMax == 6
DetInf == HPMax + 1
DetNaN == HPMax + 2

DLt(a, b) == a # DetNaN /\ b # DetNaN /\ a < b
DLe(a, b) == a # DetNaN /\ b # DetNaN /\ a <= b

(* ----------------------- TScalarType arithmetic ------------------------ *)
PosInf == FMax * FMax + FMax + 1
NegInf == 0 - PosInf
NaN == PosInf + 1

IsInf(x) == x = PosInf \/ x = NegInf
IsFinite(x) == x # NaN /\ ~IsInf(x)

Round(x, lim) == IF x > lim THEN PosInf ELSE IF x < 0 - lim THEN NegInf ELSE x

XNeg(a) == IF a = NaN THEN NaN ELSE 0 - a

XAddL(a, b, lim) ==
    IF a = NaN \/ b = NaN THEN NaN
    ELSE IF IsInf(a) THEN (IF IsInf(b) /\ a # b THEN NaN ELSE a)
    ELSE IF IsInf(b) THEN b
    ELSE Round(a + b, lim)

XAdd(a, b) == XAddL(a, b, FMax)

XSub(a, b) == XAdd(a, XNeg(b))

XMul(a, b) ==
    IF a = NaN \/ b = NaN THEN NaN
    ELSE IF IsInf(a) \/ IsInf(b)
         THEN (IF a = 0 \/ b = 0 THEN NaN
               ELSE IF (a > 0) = (b > 0) THEN PosInf ELSE NegInf)
    ELSE Round(a * b, FMax)

(* --------------------------- Eigen matrices ---------------------------- *)
Rows(M) == Len(M)
Cols(M) == Len(M[1])

Adjoint(M) == [j \in 1..Cols(M) |-> [i \in 1..Rows(M) |-> M[i][j]]]

Col(M, j) == [i \in 1..Rows(M) |-> <<M[i][j]>>]

RECURSIVE DotAcc(_, _, _, _, _)
DotAcc(A, B, i, j, k) ==
    IF k = 0 THEN 0
    ELSE XAdd(DotAcc(A, B, i, j, k - 1), XMul(A[i][k], B[k][j]))

MatMul(A, B) ==
    [i \in 1..Rows(A) |-> [j \in 1..Cols(B) |-> DotAcc(A, B, i, j, Cols(A))]]

MatSub(A, B) ==
    [i \in 1..Rows(A) |-> [j \in 1..Cols(A) |-> XSub(A[i][j], B[i][j])]]

RECURSIVE TraceAcc(_, _)
TraceAcc(M, k) == IF k = 0 THEN 0 ELSE XAdd(TraceAcc(M, k - 1), M[k][k])

Trace(M) == TraceAcc(M, Rows(M))

Block(D, p, n) == [i \in 1..n |-> D[p * n + i]]

(* --------------- what a GaussianProcess hands to a likelihood ---------- *)
(* ComputeLabelMatrix: an n x t matrix of labels.                          *)
LabelMatrix(kind, n, t) ==
    [i \in 1..n |-> [j \in 1..t |->
        IF kind = "ones" THEN 1 ELSE 1 + ((i + j) % 2)]]

(* ComputeCoreMatrixWithDeterminant: an n x n matrix (symmetry is not      *)
(* checked by the likelihoods, so it is not assumed).                      *)
CoreMatrix(kind, n) ==
    [i \in 1..n |-> [j \in 1..n |->
        CASE kind = "asym"   -> (IF i = j THEN 1 ELSE IF i < j THEN 2 ELSE 0)
          [] kind = "scaled" -> (IF i = j THEN 6 ELSE 0)
          [] kind = "signed" -> (IF j % 2 = 1 THEN 8 ELSE 0 - 8)]]

(* One n x n block of the derivative kernel matrix.                        *)
DerivBlock(kind, n) ==
    [i \in 1..n |-> [j \in 1..n |->
        IF kind = "zero" THEN 0
        ELSE IF i = n /\ j = 1 THEN 2 ELSE IF i = j THEN 1 ELSE 0]]

(* ComputeDerivativeKernelMatrix: the blocks stacked vertically, followed  *)
(* by `extra` further rows (a stack whose row count is no multiple of n).  *)
DerivativeKernelMatrix(kinds, n, extra) ==
    [r \in 1..(Len(kinds) * n) |->
        DerivBlock(kinds[((r - 1) \div n) + 1], n)[((r - 1) % n) + 1]]
    \o [e \in 1..extra |-> [j \in 1..n |-> 1]]

BlockKinds == {"zero", "shift"}

BlockSeqs == UNION {[1..p -> BlockKinds] : p \in 0..MaxP}

Determinants ==
    {0 - (HPEps + 1), 0 - HPEps, 0 - 1} \cup (0..DetInf) \cup {DetNaN}

GaussianProcesses ==
    UNION {
        {[Y |-> LabelMatrix(yk, n, t), C |-> CoreMatrix(ck, n), d |-> d,
          D |-> DerivativeKernelMatrix(ks, n, e), Dcols |-> n] :
            t \in 1..MaxT, yk \in {"ones", "ramp"},
            ck \in {"asym", "scaled", "signed"}, d \in Determinants,
            ks \in BlockSeqs, e \in {x \in 0..1 : x < n}}
        : n \in 1..MaxN}

(* Eigen's assertions are compiled in ("debug") or out with NDEBUG         *)
(* ("release").                                                            *)
Builds == {"debug", "release"}

(* ------------------------------ results -------------------------------- *)
NoCp == <<"none", 0>>

NoValue == [aborted |-> FALSE, df |-> <<>>, cp |-> NoCp, ct |-> 0,
            value |-> <<>>, sumDone |-> FALSE, sum |-> 0]

Result(outcome, what, calls, v, value, delta, jacobian) ==
    [outcome |-> outcome, what |-> what, calls |-> calls, cp |-> v.cp,
     sumDone |-> v.sumDone, sum |-> v.sum,
     value |-> value, delta |-> delta, jacobian |-> jacobian]

Thrown(what, calls, v) == Result("thrown", what, calls, v, <<>>, <<>>, <<>>)

Aborted(calls) ==
    Result("aborted", "eigen_assert", calls, NoValue, <<>>, <<>>, <<>>)

NoResult == Result("none", "", <<>>, NoValue, <<>>, <<>>, <<>>)

(* ------------------- pieces shared by the member functions ------------- *)
(* `VectorType df = -0.5 * (Y.adjoint() * C * Y);`  The right-hand side is *)
(* a t x t matrix, the left-hand side a column vector.  For t = 1 the      *)
(* shapes agree.  For t > 1 the assignment breaks Eigen's precondition:    *)
(* with assertions compiled in the program aborts; with NDEBUG the vector  *)
(* keeps t rows and receives the first column of the product.              *)
(* The entries are 2*df.                                                   *)
DataFit(Y, C, b) ==
    LET YtCY == MatMul(MatMul(Adjoint(Y), C), Y)
    IN  [aborted |-> Cols(YtCY) > 1 /\ b = "debug",
         df |-> [i \in 1..Rows(YtCY) |-> XNeg(YtCY[i][1])]]

(* Mutant: the penalty clamped for every determinant up to epsilon.        *)
PlainComplexityPenalty_ClampToEpsilon(determinant) ==
    IF DLe(determinant, HPEps) THEN <<"clamp_min", HPMin>>
    ELSE <<"from_det", determinant>>

(* GaussianLikelihood's complexity penalty, as <<branch, argument>>:       *)
(* 1/sqrt(min) or 1/sqrt(determinant).                                     *)
PlainComplexityPenalty(determinant) ==
    IF DLe(determinant, 0) THEN <<"clamp_min", HPMin>>
    ELSE <<"from_det", determinant>>

(* GaussianLogLikelihood's complexity penalty, as <<branch, argument>>:    *)
(* -0.5*log(min), -0.5*log(max) or -0.5*log(determinant).                  *)
LogComplexityPenalty(determinant) ==
    IF DLe(determinant, HPMin) THEN <<"clamp_min", HPMin>>
    ELSE IF DLt(HPMax, determinant) THEN <<"clamp_max", HPMax>>
    ELSE <<"from_det", determinant>>

(* The penalty is NaN exactly when it is computed from a NaN determinant;  *)
(* every other penalty and the constant term ct are finite.                *)
PenaltyIsNaN(cp) == cp[1] = "from_det" /\ cp[2] = DetNaN

(* value.array().sum() of value = df.array() + (cp + ct), as 2*sum of the  *)
(* data-fit part: the finite offset cp + ct cannot make a finite sum       *)
(* overflow, a NaN penalty makes every entry NaN.                          *)
RECURSIVE SumAcc(_, _)
SumAcc(df, k) ==
    IF k = 0 THEN 0 ELSE XAddL(SumAcc(df, k - 1), df[k], 2 * FMax)

ArraySum(df, cp) ==
    IF PenaltyIsNaN(cp) /\ Len(df) > 0 THEN NaN ELSE SumAcc(df, Len(df))

(* Lines 174-195 (repeated verbatim at 239-259 and 295-315): data fit,     *)
(* complexity penalty, constant term, value and its sum.                   *)
LogValue(Y, C, determinant, b) ==
    LET fit == DataFit(Y, C, b)
        cp == LogComplexityPenalty(determinant)
        ct == Rows(C)
    IN  [aborted |-> fit.aborted, df |-> fit.df, cp |-> cp, ct |-> ct,
         value |-> [i \in 1..Len(fit.df) |->
                       [form |-> "df+cp+ct", df2 |-> fit.df[i],
                        cp |-> cp, ct |-> ct]],
         sumDone |-> ~fit.aborted,
         sum |-> IF fit.aborted THEN 0 ELSE ArraySum(fit.df, cp)]

(* Mutant: the quotient taken in integer arithmetic (the casts to double   *)
(* left out), so that the difference is always 0.                          *)
WrongDimension_IntegerQuotient(rows, cols) ==
    LET num_params == rows \div cols
    IN  (rows \div cols) - num_params # 0

(* `static_cast<double>(D.rows())/static_cast<double>(D.cols())            *)
(*    - num_params != 0` with num_params the truncated quotient.           *)
WrongDimension(rows, cols) ==
    LET num_params == rows \div cols
    IN  rows - num_params * cols # 0

(* Mutant: the trace taken as the sum of A_ij * B_ij, without transposing. *)
TraceTerm_Untransposed(alpha, C, Dp) ==
    Trace(MatMul(MatSub(MatMul(alpha, Adjoint(alpha)), C), Adjoint(Dp)))

(* `0.5 * ((alpha*alpha.adjoint() - C) * D.block(p*D.cols(),0,D.cols(),    *)
(*   D.cols())).trace()`, as twice its value.                              *)
TraceTerm(alpha, C, Dp) ==
    Trace(MatMul(MatSub(MatMul(alpha, Adjoint(alpha)), C), Dp))

(* Mutant: alpha taken as the label column itself.                         *)
ColumnAlpha_WithoutCore(C, Y, i) == Col(Y, i)

(* `MatrixType alpha = C*Y.col(i);` (i zero-based in the source).          *)
ColumnAlpha(C, Y, i) == MatMul(C, Col(Y, i))

LabelCoreCalls == <<"GetLabelMatrix", "GetCoreMatrix">>

AllCalls == <<"GetLabelMatrix", "GetCoreMatrix", "GetDerivativeKernelMatrix">>

InfiniteMsg ==
    "GaussianLogLikelihood::GetValueAndParameterDerivatives: likelihood is infinite."

DimensionMsg ==
    "GaussianLogLikelihood: wrong dimension of derivative kernel matrix."

DeterminantMsg == "GaussianLikelihood: determinant of K is smaller than zero: "

(* ------------------------- class Likelihood ---------------------------- *)
Likelihood_operator_call(g, b) ==
    Thrown("Likelihood: operator() is not implemented.", <<>>, NoValue)

Likelihood_GetParameterDerivatives(g, b) ==
    Thrown("Likelihood: GetParameterDerivatives is not implemented.",
           <<>>, NoValue)

Likelihood_GetValueAndParameterDerivatives(g, b) ==
    Thrown("Likelihood: GetValueAndParameterDerivatives is not implemented.",
           <<>>, NoValue)

(* Mutant: the message of the neighbouring default, copied unchanged.      *)
Likelihood_GetValueAndJacobian_CopiedMessage(g, b) ==
    Thrown("Likelihood: GetValueAndParameterDerivatives is not implemented.",
           <<>>, NoValue)

Likelihood_GetValueAndJacobian(g, b) ==
    Thrown("Likelihood: GetValueAndJacobian is not implemented.",
           <<>>, NoValue)

(* ---------------------- class GaussianLikelihood ----------------------- *)
GaussianLikelihood_operator_call(g, b) ==
    LET fit == DataFit(g.Y, g.C, b)
        cp == PlainComplexityPenalty(g.d)
        ct == Rows(g.C)
        v == [NoValue EXCEPT !.df = fit.df, !.cp = cp, !.ct = ct]
    IN  IF fit.aborted THEN Aborted(LabelCoreCalls)
        ELSE IF DLt(g.d, 0 - HPEps)
        THEN Thrown(DeterminantMsg, LabelCoreCalls, NoValue)
        ELSE Result("returned", "", LabelCoreCalls, v,
                    [i \in 1..Len(fit.df) |->
                        [form |-> "exp(df)*cp*ct", df2 |-> fit.df[i],
                         cp |-> cp, ct |-> ct]],
                    <<>>, <<>>)

(* -------------------- class GaussianLogLikelihood ---------------------- *)
GaussianLogLikelihood_operator_call(g, b) ==
    LET v == LogValue(g.Y, g.C, g.d, b)
    IN  IF v.aborted THEN Aborted(LabelCoreCalls)
        ELSE IF IsInf(v.sum) THEN Thrown(InfiniteMsg, LabelCoreCalls, v)
        ELSE Result("returned", "", LabelCoreCalls, v, v.value, <<>>, <<>>)

GaussianLogLikelihood_GetParameterDerivatives(g, b) ==
    LET alpha == MatMul(g.C, g.Y)
        num_params == Len(g.D) \div g.Dcols
    IN  IF WrongDimension(Len(g.D), g.Dcols)
        THEN Thrown(DimensionMsg, AllCalls, NoValue)
        ELSE Result("returned", "", AllCalls, NoValue, <<>>,
                    [p \in 1..num_params |->
                        TraceTerm(alpha, g.C, Block(g.D, p - 1, g.Dcols))],
                    <<>>)

(* Mutant: the combined operation without the test of the sum.             *)
GaussianLogLikelihood_GetValueAndParameterDerivatives_NoSumTest(g, b) ==
    LET v == LogValue(g.Y, g.C, g.d, b)
        alpha == MatMul(g.C, g.Y)
        num_params == Len(g.D) \div g.Dcols
    IN  IF v.aborted THEN Aborted(LabelCoreCalls)
        ELSE IF WrongDimension(Len(g.D), g.Dcols)
        THEN Thrown(DimensionMsg, AllCalls, v)
        ELSE Result("returned", "", AllCalls, v, v.value,
                    [p \in 1..num_params |->
                        TraceTerm(alpha, g.C, Block(g.D, p - 1, g.Dcols))],
                    <<>>)

GaussianLogLikelihood_GetValueAndParameterDerivatives(g, b) ==
    LET v == LogValue(g.Y, g.C, g.d, b)
        alpha == MatMul(g.C, g.Y)
        num_params == Len(g.D) \div g.Dcols
    IN  IF v.aborted THEN Aborted(LabelCoreCalls)
        ELSE IF IsInf(v.sum) THEN Thrown(InfiniteMsg, LabelCoreCalls, v)
        ELSE IF WrongDimension(Len(g.D), g.Dcols)
        THEN Thrown(DimensionMsg, AllCalls, v)
        ELSE Result("returned", "", AllCalls, v, v.value,
                    [p \in 1..num_params |->
                        TraceTerm(alpha, g.C, Block(g.D, p - 1, g.Dcols))],
                    <<>>)

GaussianLogLikelihood_GetValueAndJacobian(g, b) ==
    LET v == LogValue(g.Y, g.C, g.d, b)
        num_params == Len(g.D) \div g.Dcols
    IN  IF v.aborted THEN Aborted(LabelCoreCalls)
        ELSE IF IsInf(v.sum) THEN Thrown(InfiniteMsg, LabelCoreCalls, v)
        ELSE IF WrongDimension(Len(g.D), g.Dcols)
        THEN Thrown(DimensionMsg, AllCalls, v)
        ELSE Result("returned", "", AllCalls, v, v.value, <<>>,
                    [i \in 1..Cols(g.Y) |-> [p \in 1..num_params |->
                        TraceTerm(ColumnAlpha(g.C, g.Y, i), g.C,
                                  Block(g.D, p - 1, g.Dcols))]])

(* ---------------------------- the system ------------------------------- *)
Plain == "GaussianLikelihood"
Log == "GaussianLogLikelihood"

Init ==
    /\ gp \in GaussianProcesses
    /\ build \in Builds
    /\ last = [strategy |-> "none", op |-> "none"]
    /\ result = NoResult

(* The calls are synchronous: the caller makes one call at a time and gets *)
(* back what it returned or threw before it makes the next.                *)
Idle == last.op = "none"

(* GaussianLikelihood overrides operator() only; the other three are the   *)
(* base class's.                                                           *)
PlainEvaluate ==
    /\ Idle
    /\ last' = [strategy |-> Plain, op |-> "operator()"]
    /\ result' = GaussianLikelihood_operator_call(gp, build)
    /\ UNCHANGED <<gp, build>>

PlainGetParameterDerivatives ==
    /\ Idle
    /\ last' = [strategy |-> Plain, op |-> "GetParameterDerivatives"]
    /\ result' = Likelihood_GetParameterDerivatives(gp, build)
    /\ UNCHANGED <<gp, build>>

PlainGetValueAndParameterDerivatives ==
    /\ Idle
    /\ last' = [strategy |-> Plain, op |-> "GetValueAndParameterDerivatives"]
    /\ result' = Likelihood_GetValueAndParameterDerivatives(gp, build)
    /\ UNCHANGED <<gp, build>>

PlainGetValueAndJacobian ==
    /\ Idle
    /\ last' = [strategy |-> Plain, op |-> "GetValueAndJacobian"]
    /\ result' = Likelihood_GetValueAndJacobian(gp, build)
    /\ UNCHANGED <<gp, build>>

LogEvaluate ==
    /\ Idle
    /\ last' = [strategy |-> Log, op |-> "operator()"]
    /\ result' = GaussianLogLikelihood_operator_call(gp, build)
    /\ UNCHANGED <<gp, build>>

LogGetParameterDerivatives ==
    /\ Idle
    /\ last' = [strategy |-> Log, op |-> "GetParameterDerivatives"]
    /\ result' = GaussianLogLikelihood_GetParameterDerivatives(gp, build)
    /\ UNCHANGED <<gp, build>>

LogGetValueAndParameterDerivatives ==
    /\ Idle
    /\ last' = [strategy |-> Log, op |-> "GetValueAndParameterDerivatives"]
    /\ result' = GaussianLogLikelihood_GetValueAndParameterDerivatives(gp, build)
    /\ UNCHANGED <<gp, build>>

LogGetValueAndJacobian ==
    /\ Idle
    /\ last' = [strategy |-> Log, op |-> "GetValueAndJacobian"]
    /\ result' = GaussianLogLikelihood_GetValueAndJacobian(gp, build)
    /\ UNCHANGED <<gp, build>>

CallerTakesResult ==
    /\ ~Idle
    /\ last' = [strategy |-> "none", op |-> "none"]
    /\ result' = NoResult
    /\ UNCHANGED <<gp, build>>

Next ==
    \/ CallerTakesResult
    \/ PlainEvaluate
    \/ PlainGetParameterDerivatives
    \/ PlainGetValueAndParameterDerivatives
    \/ PlainGetValueAndJacobian
    \/ LogEvaluate
    \/ LogGetParameterDerivatives
    \/ LogGetValueAndParameterDerivatives
    \/ LogGetValueAndJacobian

Spec == Init /\ [][Next]_vars

(* ======================= the claims, stated ============================ *)
n == Rows(gp.C)
t == Cols(gp.Y)
d == gp.d
NumParams == Len(gp.D) \div gp.Dcols
Ragged == Len(gp.D) % gp.Dcols # 0

Evaluate == "operator()"
ParameterDerivatives == "GetParameterDerivatives"
ValueAndParameterDerivatives == "GetValueAndParameterDerivatives"
ValueAndJacobian == "GetValueAndJacobian"
Operations ==
    {Evaluate, ParameterDerivatives, ValueAndParameterDerivatives,
     ValueAndJacobian}

Called(strategy, op) == last.strategy = strategy /\ last.op = op

Returned == result.outcome = "returned"
Threw(what) == result.outcome = "thrown" /\ result.what = what

(* The error kinds of the specification, by the string the code throws.    *)
NotImplementedMsg(op) == "Likelihood: " \o op \o " is not implemented."
NotImplemented == \E op \in Operations : Threw(NotImplementedMsg(op))
NumericalError == Threw(DeterminantMsg) \/ Threw(InfiniteMsg)
DimensionError == Threw(DimensionMsg)

NoGradient == result.delta = <<>> /\ result.jacobian = <<>>
Fetched(accessor) == \E k \in 1..Len(result.calls) : result.calls[k] = accessor
TimesFetched(accessor) ==
    Cardinality({k \in 1..Len(result.calls) : result.calls[k] = accessor})

(* ----------------------------------------------------------------------- *)
(* C1.  For every determinant d < -epsilon, Evaluate of both strategies    *)
(* fails with a NumericalError and returns no value.                       *)
(* GaussianLogLikelihood::operator() has no such test: it clamps d.        *)
C1_NegativeDeterminantFails ==
    (last.op = Evaluate /\ DLt(d, 0 - HPEps))
        => (NumericalError /\ result.value = <<>>)

(* ----------------------------------------------------------------------- *)
(* C2 as written.  For every d with 0 <= d <= epsilon, Evaluate of both    *)
(* strategies takes the clamped-penalty branch and returns a value.        *)
C2_ClampedForWholeBand ==
    (last.op = Evaluate /\ DLe(0, d) /\ DLe(d, HPEps))
        => (Returned /\ result.cp[1] = "clamp_min")

(* C2 as amended.  For 0 <= d <= epsilon the penalty is clamped only at    *)
(* the low end: GaussianLikelihood clamps for d = 0 (its test is d <= 0)   *)
(* and computes 1/sqrt(d) for 0 < d <= epsilon; GaussianLogLikelihood      *)
(* clamps for d <= min and computes -0.5*log(d) for min < d <= epsilon.    *)
(* No determinant error is raised for such d: the only throw is            *)
(* GaussianLogLikelihood's for an infinite likelihood sum, and the only    *)
(* other way not to return is the failed data-fit assignment for t > 1.    *)
C2_ClampedOnlyAtLowEnd ==
    (last.op = Evaluate /\ DLe(0, d) /\ DLe(d, HPEps))
        => /\ ~Threw(DeterminantMsg)
           /\ result.outcome = "thrown"
                => (last.strategy = Log /\ IsInf(result.sum))
           /\ result.outcome = "aborted" => t > 1
           /\ result.outcome # "aborted"
                => result.cp[1] =
                      IF last.strategy = Plain
                      THEN (IF d = 0 THEN "clamp_min" ELSE "from_det")
                      ELSE (IF d <= HPMin THEN "clamp_min" ELSE "from_det")

(* GaussianLikelihood returns a value computed from a determinant strictly *)
(* between 0 and epsilon.                                                  *)
C2_Witness ==
    /\ Called(Plain, Evaluate)
    /\ DLt(0, d) /\ DLe(d, HPEps)
    /\ Returned
    /\ result.cp = <<"from_det", d>>

(* ----------------------------------------------------------------------- *)
DerivativeOperations ==
    {ParameterDerivatives, ValueAndParameterDerivatives, ValueAndJacobian}

ValueOperations == {Evaluate, ValueAndParameterDerivatives, ValueAndJacobian}

DerivativeStack == "GetDerivativeKernelMatrix"

(* A returned gradient has NumParams components, a returned Jacobian has   *)
(* one row per output and NumParams columns.                               *)
GradientHasNumParams ==
    /\ last.op \in {ParameterDerivatives, ValueAndParameterDerivatives}
         => Len(result.delta) = NumParams
    /\ last.op = ValueAndJacobian
         => /\ Len(result.jacobian) = t
            /\ \A i \in 1..Len(result.jacobian) :
                  Len(result.jacobian[i]) = NumParams

(* C3 as written.  Whenever D's row count is no exact multiple of its      *)
(* column count, GaussianLogLikelihood's ParameterDerivatives,             *)
(* ValueAndParameterDerivatives and ValueAndJacobian each fail with a      *)
(* DimensionError and return no gradient or Jacobian; whenever it is an    *)
(* exact multiple p*cols the guard does not fire and the result has        *)
(* exactly p gradient components.                                          *)
C3_RaggedAlwaysDimensionError ==
    (last.strategy = Log /\ last.op \in DerivativeOperations)
        => /\ Ragged => (DimensionError /\ NoGradient)
           /\ ~Ragged => (~DimensionError /\ (Returned => GradientHasNumParams))

(* C3 as amended.  Whenever D's row count is no exact multiple of its      *)
(* column count, none of the three operations returns a gradient or        *)
(* Jacobian: ParameterDerivatives always fails with a DimensionError, and  *)
(* the two combined operations fail with a DimensionError whenever they    *)
(* get as far as fetching D (they fetch it only after the value has been   *)
(* computed and its sum found not infinite).  Whenever the row count is    *)
(* an exact multiple p*cols the guard does not fire and a returned         *)
(* gradient has exactly p components (a returned Jacobian p columns).      *)
C3_RaggedNeverReturnsGradient ==
    (last.strategy = Log /\ last.op \in DerivativeOperations)
        => /\ Ragged
                => /\ ~Returned /\ NoGradient
                   /\ last.op = ParameterDerivatives => DimensionError
                   /\ Fetched(DerivativeStack) => DimensionError
                   /\ DimensionError => Fetched(DerivativeStack)
           /\ ~Ragged => (~DimensionError /\ (Returned => GradientHasNumParams))

(* ValueAndJacobian got past the value, fetched a ragged D and failed.     *)
C3_Witness ==
    /\ Called(Log, ValueAndJacobian)
    /\ Ragged /\ Len(gp.D) > gp.Dcols
    /\ DimensionError
    /\ result.sumDone /\ IsFinite(result.sum)

(* ----------------------------------------------------------------------- *)
(* C4.  In GaussianLogLikelihood's Evaluate, ValueAndParameterDerivatives  *)
(* and ValueAndJacobian, whenever the sum of the per-output values is      *)
(* non-finite (infinite or NaN) the operation fails with a NumericalError  *)
(* and returns no value; a value is returned only when the sum is finite.  *)
(* The code tests std::isinf, which is false for NaN.                      *)
C4_NonFiniteSumFails ==
    (last.strategy = Log /\ last.op \in ValueOperations /\ result.sumDone)
        => /\ ~IsFinite(result.sum) => (NumericalError /\ result.value = <<>>)
           /\ result.value # <<>> => IsFinite(result.sum)

(* ----------------------------------------------------------------------- *)
(* C5.  Every operation a strategy does not override fails with a          *)
(* NotImplemented error naming that operation and returns nothing: on      *)
(* GaussianLikelihood, ParameterDerivatives, ValueAndParameterDerivatives  *)
(* and ValueAndJacobian fail this way for every model, without calling any *)
(* model accessor, while Evaluate does not; on GaussianLogLikelihood none  *)
(* of the four operations fails with NotImplemented.                       *)
C5_DefaultsNotImplemented ==
    /\ (last.strategy = Plain /\ last.op \in DerivativeOperations)
          => /\ Threw(NotImplementedMsg(last.op))
             /\ result.calls = <<>>
             /\ result.value = <<>> /\ NoGradient
    /\ Called(Plain, Evaluate) => ~NotImplemented
    /\ last.strategy = Log => ~NotImplemented

(* The default ValueAndJacobian was called on a GaussianLikelihood.        *)
C5_Witness ==
    /\ Called(Plain, ValueAndJacobian)
    /\ NotImplemented
    /\ result.calls = <<>>

(* ----------------------------------------------------------------------- *)
(* C6.  In GaussianLogLikelihood's ValueAndParameterDerivatives and        *)
(* ValueAndJacobian, for a model where both the value-side failure         *)
(* (non-finite likelihood sum) and the dimension mismatch in D apply, the  *)
(* failure reported is the value-side NumericalError, never the            *)
(* DimensionError, and D is not fetched.                                   *)
C6_ValueFailureReportedFirst ==
    (/\ last.strategy = Log
     /\ last.op \in {ValueAndParameterDerivatives, ValueAndJacobian}
     /\ result.sumDone /\ ~IsFinite(result.sum)
     /\ Ragged)
        => (NumericalError /\ ~DimensionError /\ ~Fetched(DerivativeStack))

(* ----------------------------------------------------------------------- *)
(* What the other operations give on the model of the current state.       *)
EvaluateHere == GaussianLogLikelihood_operator_call(gp, build)
ParameterDerivativesHere ==
    GaussianLogLikelihood_GetParameterDerivatives(gp, build)

(* C7.  For every single-output model (t = 1) on which both operations     *)
(* succeed, the Jacobian returned by ValueAndJacobian has shape 1 x p and   *)
(* its entry [0,k] equals the k-th component of the vector returned by     *)
(* ParameterDerivatives on the same model, for every k in [0, p).          *)
C7_JacobianRowIsGradient ==
    (/\ Called(Log, ValueAndJacobian) /\ t = 1 /\ Returned
     /\ ParameterDerivativesHere.outcome = "returned")
        => /\ Len(result.jacobian) = 1
           /\ Len(result.jacobian[1]) = NumParams
           /\ Len(ParameterDerivativesHere.delta) = NumParams
           /\ \A k \in 1..NumParams :
                 result.jacobian[1][k] = ParameterDerivativesHere.delta[k]

(* A single-output Jacobian with two columns, one of them a finite         *)
(* non-zero derivative.                                                    *)
C7_Witness ==
    /\ Called(Log, ValueAndJacobian) /\ t = 1 /\ n > 1 /\ Returned
    /\ ParameterDerivativesHere.outcome = "returned"
    /\ NumParams = 2
    /\ \E k \in 1..NumParams :
          IsFinite(result.jacobian[1][k]) /\ result.jacobian[1][k] # 0

(* ----------------------------------------------------------------------- *)
(* C8.  ValueAndParameterDerivatives is the combination of Evaluate and    *)
(* ParameterDerivatives: where it succeeds, its first component is what    *)
(* Evaluate returns and its second what ParameterDerivatives returns on    *)
(* the same model; it fails whenever either of them fails; and one call    *)
(* invokes each of the label, core-matrix and derivative-kernel accessors  *)
(* at most once.                                                           *)
C8_CombinesValueAndGradient ==
    Called(Log, ValueAndParameterDerivatives)
        => /\ Returned
                => /\ EvaluateHere.outcome = "returned"
                   /\ ParameterDerivativesHere.outcome = "returned"
                   /\ result.value = EvaluateHere.value
                   /\ result.delta = ParameterDerivativesHere.delta
           /\ (\/ EvaluateHere.outcome # "returned"
               \/ ParameterDerivativesHere.outcome # "returned")
                => (~Returned /\ result.value = <<>> /\ NoGradient)
           /\ \A a \in {"GetLabelMatrix", "GetCoreMatrix", DerivativeStack} :
                 TimesFetched(a) <= 1

(* A successful combined call with a value and a non-empty gradient.       *)
C8_Witness ==
    /\ Called(Log, ValueAndParameterDerivatives) /\ Returned
    /\ Len(result.value) = t
    /\ NumParams >= 1
    /\ \E k \in 1..NumParams : IsFinite(result.delta[k]) /\ result.delta[k] # 0
    /\ \A a \in {"GetLabelMatrix", "GetCoreMatrix", DerivativeStack} :
          TimesFetched(a) = 1

(* ----------------------------------------------------------------------- *)
(* Twice -0.5 * (Y_i^T C Y_i), Y_i the i-th column of Y.                    *)
DiagonalDataFit(i) ==
    XNeg(MatMul(MatMul(Adjoint(Col(gp.Y, i)), gp.C), Col(gp.Y, i))[1][1])

(* C9.  For every label matrix with t >= 1 output columns (t > 1           *)
(* included), GaussianLogLikelihood's Evaluate returns a vector of length  *)
(* exactly t whose i-th entry is -0.5*(Y_i^T C Y_i) + cp + ct: only the     *)
(* diagonal of Y^T C Y enters the result.  (A call that fails for an       *)
(* infinite sum is left aside.)                                            *)
C9_DiagonalPerOutput ==
    (Called(Log, Evaluate) /\ ~NumericalError)
        => /\ Returned
           /\ Len(result.value) = t
           /\ \A i \in 1..Len(result.value) :
                 /\ result.value[i].df2 = DiagonalDataFit(i)
                 /\ result.value[i].cp = LogComplexityPenalty(d)
                 /\ result.value[i].ct = n

(* ----------------------------------------------------------------------- *)
(* alpha*alpha^T - C with alpha = C*Y, and twice                            *)
(* 0.5 * Sum_ij (alpha*alpha^T - C)_ij * (D_k)_ji.                          *)
AlphaOuterMinusC ==
    MatSub(MatMul(MatMul(gp.C, gp.Y), Adjoint(MatMul(gp.C, gp.Y))), gp.C)

RECURSIVE RowSum(_, _, _, _)
RowSum(A, B, i, j) ==
    IF j = 0 THEN 0 ELSE XAdd(RowSum(A, B, i, j - 1), XMul(A[i][j], B[j][i]))

RECURSIVE PairSum(_, _, _)
PairSum(A, B, i) ==
    IF i = 0 THEN 0 ELSE XAdd(PairSum(A, B, i - 1), RowSum(A, B, i, Rows(A)))

TraceIdentity(k) ==
    PairSum(AlphaOuterMinusC, Block(gp.D, k - 1, gp.Dcols), n)

ZeroBlock(k) ==
    \A i \in 1..gp.Dcols : \A j \in 1..gp.Dcols :
        Block(gp.D, k - 1, gp.Dcols)[i][j] = 0

AllFinite(A) == \A i \in 1..Rows(A) : \A j \in 1..Cols(A) : IsFinite(A[i][j])

(* C10 as written.  For every model with a well-shaped stack D of p        *)
(* blocks, ParameterDerivatives returns a vector of length p whose k-th    *)
(* entry is 0.5*trace((alpha*alpha^T - C)*D_k), alpha = C*Y, D_k the rows   *)
(* [k*n, (k+1)*n) of D; each entry depends only on its own block, and an   *)
(* all-zero block D_k yields exactly 0 for entry k whatever Y and C are.   *)
C10_ZeroBlockAlwaysZero ==
    (Called(Log, ParameterDerivatives) /\ ~Ragged)
        => /\ Returned
           /\ Len(result.delta) = NumParams
           /\ \A k \in 1..NumParams :
                 /\ result.delta[k] = TraceIdentity(k)
                 /\ ZeroBlock(k) => result.delta[k] = 0

(* C10 as amended.  The same, except that an all-zero block D_k yields     *)
(* exactly 0 for entry k whenever every entry of alpha*alpha^T - C is      *)
(* finite (an infinite or NaN entry times 0 is NaN).                       *)
C10_ZeroBlockZeroWhenFinite ==
    (Called(Log, ParameterDerivatives) /\ ~Ragged)
        => /\ Returned
           /\ Len(result.delta) = NumParams
           /\ \A k \in 1..NumParams :
                 /\ result.delta[k] = TraceIdentity(k)
                 /\ (ZeroBlock(k) /\ AllFinite(AlphaOuterMinusC))
                       => result.delta[k] = 0

(* Two blocks, alpha*alpha^T - C finite and not symmetric: the zero block  *)
(* gives 0, the other block a non-zero derivative.                         *)
C10_Witness ==
    /\ Called(Log, ParameterDerivatives) /\ Returned
    /\ NumParams = 2 /\ n > 1
    /\ AllFinite(AlphaOuterMinusC)
    /\ AlphaOuterMinusC[1][2] # AlphaOuterMinusC[2][1]
    /\ ZeroBlock(1) /\ result.delta[1] = 0
    /\ ~ZeroBlock(2) /\ result.delta[2] # 0

====
